---------------------------- MODULE Spec2Model ----------------------------
(***************************************************************************)
(* Model of the logging core of jasonsoft/log (log.go, entry.go).          *)
(*                                                                         *)
(* The package-level logger (_logger) is the shared state.  Application    *)
(* goroutines are the members of Threads; each runs API calls one after    *)
(* another, and the calls of different goroutines interleave.  One step of *)
(* the model is one statement of the source that reads or writes shared    *)
(* state; the evaluation of a call and the store of its result are two     *)
(* steps, a local temporary holding the value in between.                  *)
(*                                                                         *)
(* handler(e) reads logger.cacheLeveledHandlers without the lock (its      *)
(* RLock is commented out), so that read races with the store made by      *)
(* RegisterHandler.  Until the writer's Unlock, nothing orders the store   *)
(* of the closure's address after the stores that fill the closure, so a   *)
(* reader that overlaps the writer may see the old closure, the new one,   *)
(* the new one with a captured list still zero, or the new one with a      *)
(* captured slice header half stored (a runtime panic).  The Resolve       *)
(* actions draw from these outcomes.                                       *)
(*                                                                         *)
(* Variables whose comment says "history" are observations kept for the    *)
(* properties (which calls were made, what each handler was given); the    *)
(* program's behaviour does not read them.                                 *)
(***************************************************************************)
EXTENDS Integers, Sequences, FiniteSets, TLC

(***************************************************************************)
(* Bounds of the model.                                                    *)
(***************************************************************************)
\* RegisterHandler, severity and Flush calls started in one run
MaxCalls == 3
\* WithDefaultFields calls started in one run
MaxDefaults == 2
\* layers one held Entry may receive through WithFields
MaxChain == 2
\* ticks of the clock in one run
MaxClock == 2
\* whole years in the durations given to duration
MaxYears == 2
\* WithFields calls on the Entry variables in one run
MaxDerive == 2
\* values bound in one context chain
MaxCtx == 2

(***************************************************************************)
(* Levels: the six cases of the switch in getLeveledHandlers.              *)
(***************************************************************************)
DebugLevel == "DebugLevel"
InfoLevel == "InfoLevel"
WarnLevel == "WarnLevel"
ErrorLevel == "ErrorLevel"
PanicLevel == "PanicLevel"
FatalLevel == "FatalLevel"
Levels == {DebugLevel, InfoLevel, WarnLevel, ErrorLevel, PanicLevel, FatalLevel}

(***************************************************************************)
(* Inputs.                                                                 *)
(***************************************************************************)
Threads == {"t1", "t2"}
NoThread == "none"
\* Handler implementations are external; Flushers are those that also implement Flusher.
Handlers == {"h1", "h2", "h3"}
Flushers == {"h1", "h2"}
NoHandler == "nil"
\* The variadic levels argument of RegisterHandler.
LevelArgs == { <<InfoLevel>>, <<ErrorLevel, FatalLevel>> }
LogLevels == {DebugLevel, InfoLevel, ErrorLevel, PanicLevel, FatalLevel}
Msgs == {"hi"}
\* Fields values: maps from keys to values.  The values tell the layers apart.
NoFields == <<>>
DefaultArgs == { ("a" :> "d1"), ("a" :> "d2" @@ "b" :> "d2") }
FieldArgs == { ("a" :> "e1"), ("b" :> "e2" @@ "c" :> "e2") }
\* the msg argument of Trace
TraceMsgs == {"job", "task"}

(***************************************************************************)
(* Sequence helpers.                                                       *)
(***************************************************************************)
Range(s) == { s[i] : i \in 1..Len(s) }
Count(s, x) == Cardinality({ i \in 1..Len(s) : s[i] = x })
IsPrefix(s, t) == Len(s) <= Len(t) /\ SubSeq(t, 1, Len(s)) = s
Repeat(x, n) == [ i \in 1..n |-> x ]

VARIABLES
    handles,                \* logger.handles
    leveledHandlers,        \* logger.leveledHandlers
    cacheLeveledHandlers,   \* logger.cacheLeveledHandlers: the lists the closure captured
    defaultFields,          \* logger.defaultFields
    rwMutex,                \* logger.rwMutex: the goroutine holding the write lock
    pc,                     \* each goroutine's position
    reg,                    \* locals of a RegisterHandler call
    disp,                   \* locals of a severity call and of handler(e)
    wdf,                    \* locals of a WithDefaultFields call
    fl,                     \* locals of a Flush call
    held,                   \* the Entry value a goroutine holds between calls
    stderr,                 \* lines written through stdlog.Printf
    exited,                 \* os.Exit(1) was called
    calls,                  \* API calls started so far
    regCalls,               \* history: the RegisterHandler calls, in lock order
    dfCalls,                \* history: the WithDefaultFields calls
    now,                    \* the clock read by time.Now, in ticks
    elapsed,                \* the argument of a call of duration
    rendered,               \* the result of that call
    arrays,                 \* the backing arrays of the []Fields slices
    defaultSlice,           \* the slice header in logger.defaultFields
    ents,                   \* Entry variables of the caller, with their slice headers
    ctx                     \* a context.Context: its chain of values, innermost last

vars ==
    << handles, leveledHandlers, cacheLeveledHandlers, defaultFields, rwMutex, pc, reg,
       disp, wdf, fl, held, stderr, exited, calls, regCalls, dfCalls, now,
       elapsed, rendered, arrays, defaultSlice, ents, ctx >>

durVars == << elapsed, rendered >>
memVars == << arrays, defaultSlice, ents, ctx >>

(***************************************************************************)
(* logger.getLeveledHandlers: captures the six lists and returns a closure *)
(* that switches on the level.  A snapshot is the captured lists; Lookup   *)
(* is the closure's body.                                                  *)
(***************************************************************************)
EmptyRegistry == [ l \in Levels |-> <<>> ]

getLeveledHandlersMiscaptured ==
    [ debugHandlers |-> leveledHandlers[DebugLevel],
      infoHandlers  |-> leveledHandlers[DebugLevel],
      warnHandlers  |-> leveledHandlers[WarnLevel],
      errorHandlers |-> leveledHandlers[ErrorLevel],
      panicHandlers |-> leveledHandlers[PanicLevel],
      fatalHandlers |-> leveledHandlers[FatalLevel] ]

getLeveledHandlers ==
    [ debugHandlers |-> leveledHandlers[DebugLevel],
      infoHandlers  |-> leveledHandlers[InfoLevel],
      warnHandlers  |-> leveledHandlers[WarnLevel],
      errorHandlers |-> leveledHandlers[ErrorLevel],
      panicHandlers |-> leveledHandlers[PanicLevel],
      fatalHandlers |-> leveledHandlers[FatalLevel] ]

LookupSwapped(snap, level) ==
    CASE level = DebugLevel -> snap.debugHandlers
      [] level = InfoLevel  -> snap.infoHandlers
      [] level = WarnLevel  -> snap.warnHandlers
      [] level = ErrorLevel -> snap.errorHandlers
      [] level = PanicLevel -> snap.fatalHandlers
      [] level = FatalLevel -> snap.panicHandlers
      [] OTHER -> <<>>

Lookup(snap, level) ==
    CASE level = DebugLevel -> snap.debugHandlers
      [] level = InfoLevel  -> snap.infoHandlers
      [] level = WarnLevel  -> snap.warnHandlers
      [] level = ErrorLevel -> snap.errorHandlers
      [] level = PanicLevel -> snap.panicHandlers
      [] level = FatalLevel -> snap.fatalHandlers
      [] OTHER -> <<>>

EmptySnapshot ==
    [ debugHandlers |-> <<>>, infoHandlers |-> <<>>, warnHandlers |-> <<>>,
      errorHandlers |-> <<>>, panicHandlers |-> <<>>, fatalHandlers |-> <<>> ]

(***************************************************************************)
(* Entry and its field chain.                                              *)
(***************************************************************************)
OverwriteKeepFirst(acc, layer) ==
    [ k \in DOMAIN acc \cup DOMAIN layer |-> IF k \in DOMAIN acc THEN acc[k] ELSE layer[k] ]

\* the body of mergedFields' inner loop for one layer: f[k] = v for each key
Overwrite(acc, layer) ==
    [ k \in DOMAIN acc \cup DOMAIN layer |-> IF k \in DOMAIN layer THEN layer[k] ELSE acc[k] ]

RECURSIVE mergeFrom(_, _, _)
mergeFrom(chain, i, acc) ==
    IF i > Len(chain) THEN acc ELSE mergeFrom(chain, i + 1, Overwrite(acc, chain[i]))

\* Entry.mergedFields: the layers of e.fields, in order, into one map
mergedFields(e) == mergeFrom(e.fields, 1, NoFields)

\* WithDefaultFields calls that have returned
DefaultsReturned == { i \in 1..Len(dfCalls) : dfCalls[i].returned }

\* The zero Entry.  bornAfter, own and traced are history: the WithDefaultFields calls
\* that had returned when the Entry was created, the layers added to the Entry since,
\* and the message given to Trace.
NoEntry ==
    [ logger |-> FALSE, start |-> 0, fields |-> <<>>, Level |-> "", Message |-> "",
      Timestamp |-> 0, Fields |-> NoFields, bornAfter |-> {}, own |-> <<>>, traced |-> "" ]

\* newEntry: the chain of a new Entry is the logger's defaultFields slice
newEntry ==
    [ NoEntry EXCEPT !.logger = TRUE, !.fields = defaultFields, !.bornAfter = DefaultsReturned ]

WithFieldsOnDefaults(e, fields) ==
    [ e EXCEPT !.fields = Append(defaultFields, fields), !.own = Append(e.own, fields) ]

\* Entry.WithFields: a fresh slice holding the receiver's layers and the new one
WithFields(e, fields) ==
    [ e EXCEPT !.fields = Append(e.fields, fields), !.own = Append(e.own, fields) ]

(***************************************************************************)
(* Slices.  A []Fields value is a header (array, len, cap) over a backing  *)
(* array; array 0 is no array.                                             *)
(***************************************************************************)
EmptySlice == [ arr |-> 0, len |-> 0, cap |-> 0 ]
\* the Entry variables the caller keeps: a base Entry and two derived from it
EntryVars == {"e", "e1", "e2"}
\* an Entry variable holds the Entry (its chain as the list of layers) and the slice
\* header of its fields
NoEntryVar == [ e |-> NoEntry, sl |-> EmptySlice ]
\* duration has not been called
NoRender == <<>>

\* the layers a slice holds
Read(arrs, sl) == IF sl.len = 0 THEN <<>> ELSE SubSeq(arrs[sl.arr], 1, sl.len)

\* make([]Fields, 0, n): a new array of n zero cells and a slice of length 0 over it
Make(arrs, n) ==
    [ arrays |-> Append(arrs, [ i \in 1..n |-> NoFields ]),
      sl |-> [ arr |-> Len(arrs) + 1, len |-> 0, cap |-> n ] ]

\* the capacity append gives the new array when the old one is full
growCap(c) == IF c = 0 THEN 1 ELSE 2 * c

\* append(s, x): in place when the array has room, else into a larger new array
append(m, x) ==
    IF m.sl.len < m.sl.cap
    THEN [ arrays |-> [m.arrays EXCEPT ![m.sl.arr][m.sl.len + 1] = x],
           sl |-> [m.sl EXCEPT !.len = m.sl.len + 1] ]
    ELSE LET old == Read(m.arrays, m.sl)
             c == growCap(m.sl.cap)
         IN [ arrays |-> Append(m.arrays,
                                [ i \in 1..c |-> IF i <= m.sl.len THEN old[i]
                                                 ELSE IF i = m.sl.len + 1 THEN x
                                                 ELSE NoFields ]),
              sl |-> [ arr |-> Len(m.arrays) + 1, len |-> m.sl.len + 1, cap |-> c ] ]

\* append(s, xs...)
RECURSIVE appendAll(_, _, _)
appendAll(m, xs, i) == IF i > Len(xs) THEN m ELSE appendAll(append(m, xs[i]), xs, i + 1)

WithFieldsInPlace(arrs, sl, fields) == append([ arrays |-> arrs, sl |-> sl ], fields)

\* the slice statements of Entry.WithFields:
\* f := make([]Fields, 0, len(e.fields)+len(fields)); f = append(f, e.fields...);
\* f = append(f, fields)
WithFieldsSlice(arrs, sl, fields) ==
    append(appendAll(Make(arrs, sl.len + Cardinality(DOMAIN fields)), Read(arrs, sl), 1),
           fields)

\* the same statements of WithDefaultFields, on _logger.defaultFields
WithDefaultFieldsSlice(arrs, sl, fields) ==
    append(appendAll(Make(arrs, sl.len + Cardinality(DOMAIN fields)), Read(arrs, sl), 1),
           fields)

(***************************************************************************)
(* Locals of the calls when no call is running.                            *)
(***************************************************************************)
\* ret is the position the call returns to: "idle", or the Log or Flush of a handler
\* that made the call
NoReg ==
    [ handler |-> NoHandler, levels |-> <<>>, k |-> 0, snap |-> EmptySnapshot, id |-> 0,
      ret |-> "idle" ]
\* history: stop, the severity call was made by Stop; calledAt, the clock when the
\* severity method was called; events, the calls and returns of Log with the clock
NoDisp ==
    [ e |-> NoEntry, list |-> <<>>, i |-> 0, got |-> <<>>,
      seen |-> {}, retAtResolve |-> {}, startedAtResolve |-> {}, stop |-> FALSE,
      calledAt |-> 0, events |-> <<>>, ret |-> "idle" ]
NoWdf == [ f |-> <<>>, id |-> 0 ]
NoFlush == [ hs |-> <<>>, i |-> 0, did |-> <<>> ]

Running == ~exited
Returned == { i \in 1..Len(regCalls) : regCalls[i].returned }
Started == 1..Len(regCalls)

InitLogger ==
    /\ handles = <<>>
    /\ leveledHandlers = EmptyRegistry
    /\ cacheLeveledHandlers = EmptySnapshot
    /\ defaultFields = <<>>
    /\ rwMutex = NoThread
    /\ pc = [ t \in Threads |-> "idle" ]
    /\ reg = [ t \in Threads |-> NoReg ]
    /\ disp = [ t \in Threads |-> NoDisp ]
    /\ wdf = [ t \in Threads |-> NoWdf ]
    /\ fl = [ t \in Threads |-> NoFlush ]
    /\ held = [ t \in Threads |-> NoEntry ]
    /\ stderr = 0
    /\ exited = FALSE
    /\ calls = 0
    /\ regCalls = <<>>
    /\ dfCalls = <<>>
    /\ now = 0
    /\ rendered = NoRender
    /\ arrays = <<>>
    /\ defaultSlice = EmptySlice
    /\ ents = [ v \in EntryVars |-> NoEntryVar ]
    /\ ctx = <<>>

Init == InitLogger /\ elapsed = 0

(***************************************************************************)
(* RegisterHandler(handler, levels...)                                     *)
(***************************************************************************)
LockIgnored == TRUE

\* rwMutex.Lock() returns only when no goroutine holds the lock.
LockFree == rwMutex = NoThread

RegLock(t, h, ls) ==
    /\ Running /\ pc[t] = "idle" /\ calls < MaxCalls
    /\ LockFree
    /\ rwMutex' = t
    /\ pc' = [pc EXCEPT ![t] = "reg_loop"]
    /\ reg' = [reg EXCEPT ![t] =
                 [ handler |-> h, levels |-> ls, k |-> 1, snap |-> EmptySnapshot,
                   id |-> Len(regCalls) + 1, ret |-> "idle" ]]
    /\ regCalls' = Append(regCalls, [ handler |-> h, levels |-> ls, thread |-> t,
                                     returned |-> FALSE ])
    /\ calls' = calls + 1
    /\ UNCHANGED << handles, leveledHandlers, cacheLeveledHandlers, defaultFields, disp, wdf,
                    fl, held, stderr, exited, dfCalls, now,
                    durVars, memVars >>

RegAppendUnique(t) ==
    /\ Running /\ pc[t] = "reg_loop" /\ reg[t].k <= Len(reg[t].levels)
    /\ LET level == reg[t].levels[reg[t].k]
       IN leveledHandlers' =
              [leveledHandlers EXCEPT ![level] =
                  IF reg[t].handler \in Range(leveledHandlers[level])
                  THEN leveledHandlers[level]
                  ELSE Append(leveledHandlers[level], reg[t].handler)]
    /\ reg' = [reg EXCEPT ![t].k = reg[t].k + 1]
    /\ UNCHANGED << handles, cacheLeveledHandlers, defaultFields, rwMutex, pc, disp, wdf, fl,
                    held, stderr, exited, calls, regCalls, dfCalls, now,
                    durVars, memVars >>

RegPrepend(t) ==
    /\ Running /\ pc[t] = "reg_loop" /\ reg[t].k <= Len(reg[t].levels)
    /\ LET level == reg[t].levels[reg[t].k]
       IN leveledHandlers' =
              [leveledHandlers EXCEPT ![level] = <<reg[t].handler>> \o leveledHandlers[level]]
    /\ reg' = [reg EXCEPT ![t].k = reg[t].k + 1]
    /\ UNCHANGED << handles, cacheLeveledHandlers, defaultFields, rwMutex, pc, disp, wdf, fl,
                    held, stderr, exited, calls, regCalls, dfCalls, now,
                    durVars, memVars >>

\* one iteration of "for _, level := range levels"
RegAppend(t) ==
    /\ Running /\ pc[t] = "reg_loop" /\ reg[t].k <= Len(reg[t].levels)
    /\ LET level == reg[t].levels[reg[t].k]
       IN leveledHandlers' =
              [leveledHandlers EXCEPT ![level] = Append(leveledHandlers[level], reg[t].handler)]
    /\ reg' = [reg EXCEPT ![t].k = reg[t].k + 1]
    /\ UNCHANGED << handles, cacheLeveledHandlers, defaultFields, rwMutex, pc, disp, wdf, fl,
                    held, stderr, exited, calls, regCalls, dfCalls, now,
                    durVars, memVars >>

\* _logger.handles = append(_logger.handles, handler)
RegHandles(t) ==
    /\ Running /\ pc[t] = "reg_loop" /\ reg[t].k > Len(reg[t].levels)
    /\ handles' = Append(handles, reg[t].handler)
    /\ pc' = [pc EXCEPT ![t] = "reg_snap"]
    /\ UNCHANGED << leveledHandlers, cacheLeveledHandlers, defaultFields, rwMutex, reg, disp,
                    wdf, fl, held, stderr, exited, calls, regCalls, dfCalls, now,
                    durVars, memVars >>

\* the call _logger.getLeveledHandlers()
RegSnapshot(t) ==
    /\ Running /\ pc[t] = "reg_snap"
    /\ reg' = [reg EXCEPT ![t].snap = getLeveledHandlers]
    /\ pc' = [pc EXCEPT ![t] = "reg_pub"]
    /\ UNCHANGED << handles, leveledHandlers, cacheLeveledHandlers, defaultFields, rwMutex,
                    disp, wdf, fl, held, stderr, exited, calls, regCalls, dfCalls, now,
                    durVars, memVars >>

\* the store _logger.cacheLeveledHandlers = ...
RegPublish(t) ==
    /\ Running /\ pc[t] = "reg_pub"
    /\ cacheLeveledHandlers' = reg[t].snap
    /\ pc' = [pc EXCEPT ![t] = "reg_unlock"]
    /\ UNCHANGED << handles, leveledHandlers, defaultFields, rwMutex, reg, disp, wdf, fl,
                    held, stderr, exited, calls, regCalls, dfCalls, now,
                    durVars, memVars >>

\* the deferred rwMutex.Unlock(), and the return
RegUnlock(t) ==
    /\ Running /\ pc[t] = "reg_unlock"
    /\ rwMutex' = NoThread
    /\ regCalls' = [regCalls EXCEPT ![reg[t].id].returned = TRUE]
    /\ reg' = [reg EXCEPT ![t] = NoReg]
    /\ pc' = [pc EXCEPT ![t] = reg[t].ret]
    /\ UNCHANGED << handles, leveledHandlers, cacheLeveledHandlers, defaultFields, disp, wdf,
                    fl, held, stderr, exited, calls, dfCalls, now,
                    durVars, memVars >>

(***************************************************************************)
(* Severity calls and handler(e)                                           *)
(***************************************************************************)
\* Entry.Debug .. Entry.Fatal: set Level and Message, then handler(e).
\* seen is history: the registrations that had returned when the call started.
StartDispatch(t, e, level, msg) ==
    /\ disp' = [disp EXCEPT ![t] =
                  [ NoDisp EXCEPT !.e = [e EXCEPT !.Level = level, !.Message = msg],
                                  !.seen = Returned,
                                  !.calledAt = now ]]
    /\ pc' = [pc EXCEPT ![t] = "resolve"]
    /\ calls' = calls + 1

\* the package-level Debug(msg) .. Fatal(msg): newEntry(_logger), then the Entry's method
LogCall(t, level, msg) ==
    /\ Running /\ pc[t] = "idle" /\ calls < MaxCalls
    /\ StartDispatch(t, newEntry, level, msg)
    /\ UNCHANGED << handles, leveledHandlers, cacheLeveledHandlers, defaultFields, rwMutex,
                    reg, wdf, fl, held, stderr, exited, regCalls, dfCalls, now,
                    durVars, memVars >>

\* e := newEntry(_logger), kept by the caller (the first half of the package-level
\* WithFields, Str, ..., Trace, and FromContext on a context without an Entry)
NewEntryHeld(t) ==
    /\ Running /\ pc[t] = "idle"
    /\ held[t] # newEntry
    /\ held' = [held EXCEPT ![t] = newEntry]
    /\ UNCHANGED << handles, leveledHandlers, cacheLeveledHandlers, defaultFields, rwMutex, pc,
                    reg, disp, wdf, fl, stderr, exited, calls, regCalls, dfCalls, now,
                    durVars, memVars >>

\* e = e.WithFields(fields), and WithField, Str, Int, ... which call it with one key
EntryWithFields(t, fields) ==
    /\ Running /\ pc[t] = "idle"
    /\ held[t].logger /\ Len(held[t].own) < MaxChain
    /\ held' = [held EXCEPT ![t] = WithFields(held[t], fields)]
    /\ UNCHANGED << handles, leveledHandlers, cacheLeveledHandlers, defaultFields, rwMutex, pc,
                    reg, disp, wdf, fl, stderr, exited, calls, regCalls, dfCalls, now,
                    durVars, memVars >>

\* e.Debug(msg) .. e.Fatal(msg) on the held Entry; the method has a value receiver,
\* so the caller's Entry is left as it was
EntrySeverity(t, level, msg) ==
    /\ Running /\ pc[t] = "idle" /\ calls < MaxCalls
    /\ held[t].logger
    /\ StartDispatch(t, held[t], level, msg)
    /\ UNCHANGED << handles, leveledHandlers, cacheLeveledHandlers, defaultFields, rwMutex,
                    reg, wdf, fl, held, stderr, exited, regCalls, dfCalls, now,
                    durVars, memVars >>

\* a RegisterHandler call of another goroutine has stored the new closure and has
\* not yet released the lock
Publishing(t) == \E u \in Threads \ {t} : pc[u] = "reg_unlock"

ResolveTo(t, list) ==
    /\ disp' = [disp EXCEPT ![t].list = list,
                            ![t].i = 1,
                            ![t].retAtResolve = Returned,
                            ![t].startedAtResolve = Started]
    /\ pc' = [pc EXCEPT ![t] = "dispatch"]
    /\ UNCHANGED << handles, leveledHandlers, cacheLeveledHandlers, defaultFields, rwMutex,
                    reg, wdf, fl, held, stderr, exited, calls, regCalls, dfCalls, now,
                    durVars, memVars >>

\* "range e.logger.cacheLeveledHandlers(e.Level)": the closure is read and called once
Resolve(t) ==
    /\ Running /\ pc[t] = "resolve"
    /\ ResolveTo(t, Lookup(cacheLeveledHandlers, disp[t].e.Level))

\* the same read while the store is being published: the captured list is still zero
ResolveZeroList(t) ==
    /\ Running /\ pc[t] = "resolve"
    /\ Publishing(t)
    /\ ResolveTo(t, <<>>)

\* the same read while the store is being published: the captured slice header has
\* its length and not yet its array, ranging over it faults and the panic ends the
\* process
ResolveTornList(t) ==
    /\ Running /\ pc[t] = "resolve"
    /\ Publishing(t)
    /\ pc' = [pc EXCEPT ![t] = "crash"]
    /\ exited' = TRUE
    /\ UNCHANGED << handles, leveledHandlers, cacheLeveledHandlers, defaultFields, rwMutex,
                    reg, disp, wdf, fl, held, stderr, calls, regCalls, dfCalls, now,
                    durVars, memVars >>

NextIndexAbort(i, failed, n) == IF failed THEN n + 1 ELSE i + 1

\* the loop goes on to the next handler whether or not Log failed
NextIndex(i, failed, n) == i + 1

\* one iteration of the loop: merge the fields, call h.Log(e), report a failure
Invoke(t, failed) ==
    /\ Running /\ pc[t] = "dispatch" /\ disp[t].i <= Len(disp[t].list)
    /\ LET h == disp[t].list[disp[t].i]
           e == [disp[t].e EXCEPT !.Timestamp = now, !.Fields = mergedFields(disp[t].e)]
       IN disp' = [disp EXCEPT ![t].e = e,
                               ![t].got = Append(disp[t].got,
                                                 [ handler |-> h, Level |-> e.Level,
                                                   Message |-> e.Message,
                                                   Timestamp |-> e.Timestamp,
                                                   Fields |-> e.Fields,
                                                   failed |-> failed ]),
                               ![t].i = NextIndex(disp[t].i, failed, Len(disp[t].list))]
    /\ stderr' = IF failed THEN stderr + 1 ELSE stderr
    /\ UNCHANGED << handles, leveledHandlers, cacheLeveledHandlers, defaultFields, rwMutex, pc,
                    reg, wdf, fl, held, exited, calls, regCalls, dfCalls, now,
                    durVars, memVars >>

TimeNowOnce(t) == disp[t].calledAt

\* time.Now().UTC(), read in the loop body
TimeNow(t) == now

\* the loop body up to the call of h.Log(e): the timestamp, the merged fields, the call
LogBegin(t) ==
    /\ Running /\ pc[t] = "dispatch" /\ disp[t].i <= Len(disp[t].list)
    /\ LET h == disp[t].list[disp[t].i]
           e == [disp[t].e EXCEPT !.Timestamp = TimeNow(t), !.Fields = mergedFields(disp[t].e)]
       IN disp' = [disp EXCEPT ![t].e = e,
                               ![t].events = Append(disp[t].events,
                                                    [ kind |-> "call", handler |-> h,
                                                      at |-> now,
                                                      Timestamp |-> e.Timestamp ])]
    /\ pc' = [pc EXCEPT ![t] = "in_log"]
    /\ UNCHANGED << handles, leveledHandlers, cacheLeveledHandlers, defaultFields, rwMutex,
                    reg, wdf, fl, held, stderr, exited, calls, regCalls, dfCalls, now,
                    durVars, memVars >>

\* h.Log(e) returns: a failure is printed, and the loop goes on
LogReturn(t, failed) ==
    /\ Running /\ pc[t] = "in_log"
    /\ LET h == disp[t].list[disp[t].i]
           e == disp[t].e
       IN disp' = [disp EXCEPT ![t].got = Append(disp[t].got,
                                                 [ handler |-> h, Level |-> e.Level,
                                                   Message |-> e.Message,
                                                   Timestamp |-> e.Timestamp,
                                                   Fields |-> e.Fields,
                                                   failed |-> failed ]),
                               ![t].events = Append(disp[t].events,
                                                    [ kind |-> "return", handler |-> h,
                                                      at |-> now,
                                                      Timestamp |-> e.Timestamp ]),
                               ![t].i = NextIndex(disp[t].i, failed, Len(disp[t].list))]
    /\ stderr' = IF failed THEN stderr + 1 ELSE stderr
    /\ pc' = [pc EXCEPT ![t] = "dispatch"]
    /\ UNCHANGED << handles, leveledHandlers, cacheLeveledHandlers, defaultFields, rwMutex,
                    reg, wdf, fl, held, exited, calls, regCalls, dfCalls, now,
                    durVars, memVars >>

ExitsFatalOnly(level) == level = FatalLevel

\* Panic, Panicf, Fatal and Fatalf call os.Exit(1) after handler(e)
Exits(level) == level \in {PanicLevel, FatalLevel}

\* handler(e) returns; the severity method returns or exits the process
Finish(t) ==
    /\ Running /\ pc[t] = "dispatch" /\ disp[t].i > Len(disp[t].list)
    /\ IF Exits(disp[t].e.Level)
       THEN /\ exited' = TRUE
            /\ pc' = [pc EXCEPT ![t] = "exit"]
            /\ disp' = disp
       ELSE /\ exited' = exited
            /\ pc' = [pc EXCEPT ![t] = disp[t].ret]
            /\ disp' = [disp EXCEPT ![t] = NoDisp]
    /\ UNCHANGED << handles, leveledHandlers, cacheLeveledHandlers, defaultFields, rwMutex,
                    reg, wdf, fl, held, stderr, calls, regCalls, dfCalls, now,
                    durVars, memVars >>

(***************************************************************************)
(* WithDefaultFields(fields)                                               *)
(***************************************************************************)
\* f := make(...); f = append(f, _logger.defaultFields...); f = append(f, fields)
WdfBuild(t, fields) ==
    /\ Running /\ pc[t] = "idle" /\ Len(dfCalls) < MaxDefaults
    /\ wdf' = [wdf EXCEPT ![t] = [ f |-> Append(defaultFields, fields), id |-> Len(dfCalls) + 1 ]]
    /\ dfCalls' = Append(dfCalls, [ fields |-> fields, returned |-> FALSE ])
    /\ pc' = [pc EXCEPT ![t] = "wdf_store"]
    /\ UNCHANGED << handles, leveledHandlers, cacheLeveledHandlers, defaultFields, rwMutex,
                    reg, disp, fl, held, stderr, exited, calls, regCalls, now,
                    durVars, memVars >>

\* _logger.defaultFields = f, and the return
WdfStore(t) ==
    /\ Running /\ pc[t] = "wdf_store"
    /\ defaultFields' = wdf[t].f
    /\ dfCalls' = [dfCalls EXCEPT ![wdf[t].id].returned = TRUE]
    /\ wdf' = [wdf EXCEPT ![t] = NoWdf]
    /\ pc' = [pc EXCEPT ![t] = "idle"]
    /\ UNCHANGED << handles, leveledHandlers, cacheLeveledHandlers, rwMutex, reg, disp, fl,
                    held, stderr, exited, calls, regCalls, now,
                    durVars, memVars >>

(***************************************************************************)
(* Flush()                                                                 *)
(***************************************************************************)
\* "range _logger.handles": the slice is evaluated once
FlushCall(t) ==
    /\ Running /\ pc[t] = "idle" /\ calls < MaxCalls
    /\ fl' = [fl EXCEPT ![t] = [ hs |-> handles, i |-> 1, did |-> <<>> ]]
    /\ pc' = [pc EXCEPT ![t] = "flush"]
    /\ calls' = calls + 1
    /\ UNCHANGED << handles, leveledHandlers, cacheLeveledHandlers, defaultFields, rwMutex,
                    reg, disp, wdf, held, stderr, exited, regCalls, dfCalls, now,
                    durVars, memVars >>

\* h.(Flusher)
IsFlusher(h) == h \in Flushers

\* one iteration: if h is a Flusher call its Flush, report a failure.
\* did is history: the Flush calls this Flush() made.
FlushStep(t, failed) ==
    /\ Running /\ pc[t] = "flush" /\ fl[t].i <= Len(fl[t].hs)
    /\ LET h == fl[t].hs[fl[t].i]
       IN /\ failed => IsFlusher(h)
          /\ fl' = [fl EXCEPT ![t].i = fl[t].i + 1,
                              ![t].did = IF IsFlusher(h)
                                         THEN Append(fl[t].did, [ handler |-> h, failed |-> failed ])
                                         ELSE fl[t].did]
    /\ stderr' = IF failed THEN stderr + 1 ELSE stderr
    /\ UNCHANGED << handles, leveledHandlers, cacheLeveledHandlers, defaultFields, rwMutex, pc,
                    reg, disp, wdf, held, exited, calls, regCalls, dfCalls, now,
                    durVars, memVars >>

FlushReturn(t) ==
    /\ Running /\ pc[t] = "flush" /\ fl[t].i > Len(fl[t].hs)
    /\ fl' = [fl EXCEPT ![t] = NoFlush]
    /\ pc' = [pc EXCEPT ![t] = "idle"]
    /\ UNCHANGED << handles, leveledHandlers, cacheLeveledHandlers, defaultFields, rwMutex,
                    reg, disp, wdf, held, stderr, exited, calls, regCalls, dfCalls, now,
                    durVars, memVars >>

(***************************************************************************)
(* RegisterHandler from its call to the lock, and the calls a handler      *)
(* makes from its Log or its Flush.  A call made by a handler runs in the  *)
(* goroutine of the call that invoked the handler and returns into it.     *)
(***************************************************************************)
\* the positions a call of the API is made from: the program, a handler's Log, a
\* Flusher's Flush
CallSites == {"idle", "in_log", "in_flush"}

\* the positions between rwMutex.Lock() and the deferred rwMutex.Unlock()
Holding == {"reg_loop", "reg_snap", "reg_pub", "reg_unlock"}

ReadLockedInHandler(t) == disp[t].i > 0

\* handler(e) takes no read lock: its RLock and RUnlock are commented out
ReadLocked(t) == FALSE

\* RegisterHandler is called and reaches rwMutex.Lock()
RegCall(t, h, ls) ==
    /\ Running /\ pc[t] \in CallSites /\ calls < MaxCalls
    /\ reg' = [reg EXCEPT ![t] =
                 [ NoReg EXCEPT !.handler = h, !.levels = ls, !.k = 1, !.ret = pc[t] ]]
    /\ pc' = [pc EXCEPT ![t] = "reg_wait"]
    /\ calls' = calls + 1
    /\ UNCHANGED << handles, leveledHandlers, cacheLeveledHandlers, defaultFields, rwMutex,
                    disp, wdf, fl, held, stderr, exited, regCalls, dfCalls, now,
                    durVars, memVars >>

\* rwMutex.Lock() returns: no goroutine holds the write lock or a read lock
RegAcquire(t) ==
    /\ Running /\ pc[t] = "reg_wait"
    /\ LockFree
    /\ \A u \in Threads : ~ReadLocked(u)
    /\ rwMutex' = t
    /\ pc' = [pc EXCEPT ![t] = "reg_loop"]
    /\ reg' = [reg EXCEPT ![t].id = Len(regCalls) + 1]
    /\ regCalls' = Append(regCalls, [ handler |-> reg[t].handler, levels |-> reg[t].levels,
                                     thread |-> t, returned |-> FALSE ])
    /\ UNCHANGED << handles, leveledHandlers, cacheLeveledHandlers, defaultFields, disp, wdf,
                    fl, held, stderr, exited, calls, dfCalls, now,
                    durVars, memVars >>

\* a Flusher's Flush is called
FlusherBegin(t) ==
    /\ Running /\ pc[t] = "flush" /\ fl[t].i <= Len(fl[t].hs)
    /\ IsFlusher(fl[t].hs[fl[t].i])
    /\ pc' = [pc EXCEPT ![t] = "in_flush"]
    /\ UNCHANGED << handles, leveledHandlers, cacheLeveledHandlers, defaultFields, rwMutex,
                    reg, disp, wdf, fl, held, stderr, exited, calls, regCalls, dfCalls, now,
                    durVars, memVars >>

\* it returns: a failure is printed, and the loop goes on
FlusherReturn(t, failed) ==
    /\ Running /\ pc[t] = "in_flush"
    /\ fl' = [fl EXCEPT ![t].i = fl[t].i + 1,
                        ![t].did = Append(fl[t].did,
                                          [ handler |-> fl[t].hs[fl[t].i], failed |-> failed ])]
    /\ stderr' = IF failed THEN stderr + 1 ELSE stderr
    /\ pc' = [pc EXCEPT ![t] = "flush"]
    /\ UNCHANGED << handles, leveledHandlers, cacheLeveledHandlers, defaultFields, rwMutex,
                    reg, disp, wdf, held, exited, calls, regCalls, dfCalls, now,
                    durVars, memVars >>

\* a package-level severity function called by a Flusher's Flush
HandlerLogCall(t, level, msg) ==
    /\ Running /\ pc[t] = "in_flush" /\ calls < MaxCalls
    /\ disp' = [disp EXCEPT ![t] =
                  [ NoDisp EXCEPT !.e = [newEntry EXCEPT !.Level = level, !.Message = msg],
                                  !.seen = Returned,
                                  !.calledAt = now,
                                  !.ret = pc[t] ]]
    /\ pc' = [pc EXCEPT ![t] = "resolve"]
    /\ calls' = calls + 1
    /\ UNCHANGED << handles, leveledHandlers, cacheLeveledHandlers, defaultFields, rwMutex,
                    reg, wdf, fl, held, stderr, exited, regCalls, dfCalls, now,
                    durVars, memVars >>

(***************************************************************************)
(* Trace, Stop and the rendering of the elapsed time                       *)
(***************************************************************************)
\* Durations are counted in minutes; one tick of the clock is twelve hours.
Minute == 1
Hour == 60 * Minute
TickLength == 12 * Hour
day == Minute * 60 * 24
year == 365 * day

\* time.Duration.String: the natural representation, kept as the value it renders
String(d) == <<d, "min">>

durationYearsAlways(d) ==
    IF d < day THEN << String(d) >>
    ELSE LET years == d \div year
             d1 == d - years * year
             days == d1 \div day
             d2 == d1 - days * day
         IN << <<years, "y">>, <<days, "d">>, String(d2) >>

\* duration: d.String() below a day, else "<years>y" when d >= year, "<days>d" and the rest
duration(d) ==
    IF d < day THEN << String(d) >>
    ELSE LET years == d \div year
             d1 == IF d >= year THEN d - years * year ELSE d
             days == d1 \div day
             d2 == d1 - days * day
         IN (IF d >= year THEN << <<years, "y">> >> ELSE <<>>) \o << <<days, "d">>, String(d2) >>

\* the durations given to duration: none, some or many years, days and minutes
Durations ==
    { y * year + k * day + r :
        y \in 0..MaxYears, k \in {0, 1, 2, 364}, r \in {0, Minute, Hour, 12 * Hour, day - Minute} }

\* a call duration(elapsed)
Render ==
    /\ rendered = NoRender
    /\ rendered' = duration(elapsed)
    /\ UNCHANGED << handles, leveledHandlers, cacheLeveledHandlers, defaultFields, rwMutex, pc,
                    reg, disp, wdf, fl, held, stderr, exited, calls, regCalls, dfCalls, now,
                    elapsed, memVars >>

(***************************************************************************)
(* The field operations on Entry variables, with their slices              *)
(***************************************************************************)
\* WithDefaultFields(fields), the whole call
VarWithDefaultFields(fields) ==
    /\ Len(dfCalls) < MaxDefaults
    /\ LET r == WithDefaultFieldsSlice(arrays, defaultSlice, fields)
       IN /\ arrays' = r.arrays
          /\ defaultSlice' = r.sl
    /\ defaultFields' = Append(defaultFields, fields)
    /\ dfCalls' = Append(dfCalls, [ fields |-> fields, returned |-> TRUE ])
    /\ UNCHANGED << handles, leveledHandlers, cacheLeveledHandlers, rwMutex, pc, reg, disp, wdf,
                    fl, held, stderr, exited, calls, regCalls, now, durVars, ents, ctx >>

\* v := newEntry(_logger)
VarNewEntry(v) ==
    /\ ents[v] # [ e |-> newEntry, sl |-> defaultSlice ]
    /\ ents' = [ents EXCEPT ![v] = [ e |-> newEntry, sl |-> defaultSlice ]]
    /\ UNCHANGED << handles, leveledHandlers, cacheLeveledHandlers, defaultFields, rwMutex, pc,
                    reg, disp, wdf, fl, held, stderr, exited, calls, regCalls, dfCalls, now,
                    durVars, arrays, defaultSlice, ctx >>

\* w := v.WithFields(fields), and the With*, typed-field and WithError calls that
\* reach it
VarWithFields(v, w, fields) ==
    /\ calls < MaxDerive
    /\ ents[v].e.logger
    /\ LET r == WithFieldsSlice(arrays, ents[v].sl, fields)
       IN /\ arrays' = r.arrays
          /\ ents' = [ents EXCEPT ![w] = [ e |-> WithFields(ents[v].e, fields), sl |-> r.sl ]]
    /\ calls' = calls + 1
    /\ UNCHANGED << handles, leveledHandlers, cacheLeveledHandlers, defaultFields, rwMutex, pc,
                    reg, disp, wdf, fl, held, stderr, exited, regCalls, dfCalls, now,
                    durVars, defaultSlice, ctx >>

(***************************************************************************)
(* NewContext and FromContext                                              *)
(***************************************************************************)
\* the package's private key, and a key of another package
ctxKey == "ctxKey"
OtherKeys == {"otherKey"}
NoValue == [ nil |-> TRUE ]
\* the value another package binds
OtherValue == [ other |-> TRUE ]

\* context.WithValue(c, key, val): a context whose innermost value is val
WithValue(c, key, val) == Append(c, [ key |-> key, val |-> val ])

\* c.Value(key): the innermost value bound to key, nil when there is none
RECURSIVE Value(_, _)
Value(c, key) ==
    IF c = <<>> THEN NoValue
    ELSE IF c[Len(c)].key = key THEN c[Len(c)].val
    ELSE Value(SubSeq(c, 1, Len(c) - 1), key)

NewContext(c, ev) == WithValue(c, ctxKey, ev)

FromContextIgnoresValue(c) == [ e |-> newEntry, sl |-> defaultSlice ]

FromContext(c) ==
    LET v == Value(c, ctxKey)
    IN IF v = NoValue THEN [ e |-> newEntry, sl |-> defaultSlice ] ELSE v

\* ctx = NewContext(ctx, v)
CtxNewContext(v) ==
    /\ Len(ctx) < MaxCtx
    /\ ents[v].e.logger
    /\ ctx' = NewContext(ctx, ents[v])
    /\ UNCHANGED << handles, leveledHandlers, cacheLeveledHandlers, defaultFields, rwMutex, pc,
                    reg, disp, wdf, fl, held, stderr, exited, calls, regCalls, dfCalls, now,
                    durVars, arrays, defaultSlice, ents >>

\* another package binds a value of its own: ctx = context.WithValue(ctx, key, val)
CtxWithValue(key) ==
    /\ Len(ctx) < MaxCtx
    /\ ctx' = WithValue(ctx, key, OtherValue)
    /\ UNCHANGED << handles, leveledHandlers, cacheLeveledHandlers, defaultFields, rwMutex, pc,
                    reg, disp, wdf, fl, held, stderr, exited, calls, regCalls, dfCalls, now,
                    durVars, arrays, defaultSlice, ents >>

\* v = FromContext(ctx)
CtxFromContext(v) ==
    /\ ents[v] # FromContext(ctx)
    /\ ents' = [ents EXCEPT ![v] = FromContext(ctx)]
    /\ UNCHANGED << handles, leveledHandlers, cacheLeveledHandlers, defaultFields, rwMutex, pc,
                    reg, disp, wdf, fl, held, stderr, exited, calls, regCalls, dfCalls, now,
                    durVars, arrays, defaultSlice, ctx >>

\* time.Since(start)
Since(start) == (now - start) * TickLength

\* the clock advances
ClockTick ==
    /\ Running /\ now < MaxClock
    /\ now' = now + 1
    /\ UNCHANGED << handles, leveledHandlers, cacheLeveledHandlers, defaultFields, rwMutex, pc,
                    reg, disp, wdf, fl, held, stderr, exited, calls, regCalls, dfCalls,
                    durVars, memVars >>

TraceLosesMessage(e, msg) == [ e EXCEPT !.start = now, !.traced = msg ]

\* Entry.Trace: the message and the start time are stored in the returned Entry
Trace(e, msg) == [ e EXCEPT !.Message = msg, !.start = now, !.traced = msg ]

\* the package-level Trace(msg): newEntry(_logger), then e.Trace(msg); the caller keeps
\* the result
TraceCall(t, msg) ==
    /\ Running /\ pc[t] = "idle"
    /\ held[t] # Trace(newEntry, msg)
    /\ held' = [held EXCEPT ![t] = Trace(newEntry, msg)]
    /\ UNCHANGED << handles, leveledHandlers, cacheLeveledHandlers, defaultFields, rwMutex, pc,
                    reg, disp, wdf, fl, stderr, exited, calls, regCalls, dfCalls, now,
                    durVars, memVars >>

\* e.Stop(): e.WithField("duration", duration(time.Since(e.start))).Info(e.Message)
StopCall(t) ==
    /\ Running /\ pc[t] = "idle" /\ calls < MaxCalls
    /\ held[t].logger
    /\ LET e == WithFields(held[t], "duration" :> duration(Since(held[t].start)))
       IN disp' = [disp EXCEPT ![t] =
                     [ NoDisp EXCEPT !.e = [e EXCEPT !.Level = InfoLevel,
                                                     !.Message = held[t].Message],
                                     !.seen = Returned,
                                     !.calledAt = now,
                                     !.stop = TRUE ]]
    /\ pc' = [pc EXCEPT ![t] = "resolve"]
    /\ calls' = calls + 1
    /\ UNCHANGED << handles, leveledHandlers, cacheLeveledHandlers, defaultFields, rwMutex,
                    reg, wdf, fl, held, stderr, exited, regCalls, dfCalls, now,
                    durVars, memVars >>

(***************************************************************************)
(* Specifications                                                          *)
(***************************************************************************)
\* inputs of the concurrent specification
ConcHandlers == {"h1", "h2"}
ConcLevelArgs == { <<InfoLevel>>, <<InfoLevel, ErrorLevel>> }
ConcLevels == {InfoLevel, ErrorLevel}

\* Spec: RegisterHandler and package-level severity calls of two goroutines, interleaved
Next ==
    \E t \in Threads :
        \/ \E h \in ConcHandlers, ls \in ConcLevelArgs : RegLock(t, h, ls)
        \/ RegAppend(t)
        \/ RegHandles(t)
        \/ RegSnapshot(t)
        \/ RegPublish(t)
        \/ RegUnlock(t)
        \/ \E level \in ConcLevels, msg \in Msgs : LogCall(t, level, msg)
        \/ Resolve(t)
        \/ ResolveZeroList(t)
        \/ ResolveTornList(t)
        \/ \E failed \in BOOLEAN : Invoke(t, failed)
        \/ Finish(t)

Spec == Init /\ [][Next]_vars

\* no call of another goroutine is running
Alone(t) == \A u \in Threads \ {t} : pc[u] = "idle"

\* SpecSeq: RegisterHandler, package-level severity calls and Flush, one call at a time
NextSeq ==
    \E t \in Threads :
        /\ Alone(t)
        /\ \/ \E h \in Handlers, ls \in LevelArgs : RegLock(t, h, ls)
           \/ RegAppend(t)
           \/ RegHandles(t)
           \/ RegSnapshot(t)
           \/ RegPublish(t)
           \/ RegUnlock(t)
           \/ \E level \in LogLevels, msg \in Msgs : LogCall(t, level, msg)
           \/ Resolve(t)
           \/ \E failed \in BOOLEAN : Invoke(t, failed)
           \/ Finish(t)
           \/ FlushCall(t)
           \/ \E failed \in BOOLEAN : FlushStep(t, failed)
           \/ FlushReturn(t)

SpecSeq == Init /\ [][NextSeq]_vars

\* SpecFields: default fields, a held entry and its severity calls in one goroutine,
\* with handlers for InfoLevel
NextFields ==
    \E t \in {"t1"} :
        /\ Alone(t)
        /\ \/ \E h \in {"h1"}, ls \in {<<InfoLevel>>} : RegLock(t, h, ls)
           \/ RegAppend(t)
           \/ RegHandles(t)
           \/ RegSnapshot(t)
           \/ RegPublish(t)
           \/ RegUnlock(t)
           \/ \E fields \in DefaultArgs : WdfBuild(t, fields)
           \/ WdfStore(t)
           \/ NewEntryHeld(t)
           \/ \E fields \in FieldArgs : EntryWithFields(t, fields)
           \/ \E level \in {InfoLevel}, msg \in Msgs : EntrySeverity(t, level, msg)
           \/ Resolve(t)
           \/ \E failed \in BOOLEAN : Invoke(t, failed)
           \/ Finish(t)

SpecFields == Init /\ [][NextFields]_vars

\* SpecDefaults: WithDefaultFields calls of two goroutines, interleaved
NextDefaults ==
    \E t \in Threads :
        \/ \E fields \in DefaultArgs \cup FieldArgs : WdfBuild(t, fields)
        \/ WdfStore(t)

SpecDefaults == Init /\ [][NextDefaults]_vars

\* inputs of the Trace specification
TraceLevelArgs == { <<ErrorLevel>>, <<InfoLevel, InfoLevel>> }

\* SpecTrace: registrations, Trace, Stop and severity calls on the held Entry in one
\* goroutine, with the clock advancing between the steps
NextTrace ==
    \/ ClockTick
    \/ \E t \in {"t1"} :
           \/ \E h \in ConcHandlers, ls \in TraceLevelArgs : RegLock(t, h, ls)
           \/ RegAppend(t)
           \/ RegHandles(t)
           \/ RegSnapshot(t)
           \/ RegPublish(t)
           \/ RegUnlock(t)
           \/ \E msg \in TraceMsgs : TraceCall(t, msg)
           \/ StopCall(t)
           \/ Resolve(t)
           \/ \E failed \in BOOLEAN : Invoke(t, failed)
           \/ Finish(t)

SpecTrace == Init /\ [][NextTrace]_vars

\* SpecAlias: default fields, Entry variables and the entries derived from them, with
\* the slices and arrays that hold their chains
\* e is the base Entry; e, e1 and e2 are assigned from e, and e1 also from itself
Derivations == { <<"e", "e">>, <<"e", "e1">>, <<"e", "e2">>, <<"e1", "e1">> }

NextAlias ==
    \/ \E fields \in DefaultArgs : VarWithDefaultFields(fields)
    \/ VarNewEntry("e")
    \/ \E d \in Derivations, fields \in FieldArgs : VarWithFields(d[1], d[2], fields)

SpecAlias == Init /\ [][NextAlias]_vars

\* SpecCtx: an Entry variable e that is extended and bound to the context, a variable
\* e2 that is read from the context, and e1 derived from e2; one WithDefaultFields call
CtxDerivations == { <<"e", "e">>, <<"e2", "e1">> }
CtxDefaultArgs == { ("a" :> "d2" @@ "b" :> "d2") }

NextCtx ==
    \/ \E fields \in CtxDefaultArgs : dfCalls = <<>> /\ VarWithDefaultFields(fields)
    \/ VarNewEntry("e")
    \/ \E d \in CtxDerivations, fields \in FieldArgs : VarWithFields(d[1], d[2], fields)
    \/ CtxNewContext("e")
    \/ \E key \in OtherKeys : CtxWithValue(key)
    \/ CtxFromContext("e2")

SpecCtx == Init /\ [][NextCtx]_vars

\* inputs of the ordering specification
OrderLevelArgs == { <<InfoLevel>>, <<InfoLevel, InfoLevel>> }

\* SpecOrder: registrations and Info calls of one goroutine, the call and the return of
\* each Log as two steps
NextOrder ==
    \E t \in {"t1"} :
           \/ \E h \in ConcHandlers, ls \in OrderLevelArgs : RegLock(t, h, ls)
           \/ RegAppend(t)
           \/ RegHandles(t)
           \/ RegSnapshot(t)
           \/ RegPublish(t)
           \/ RegUnlock(t)
           \/ \E msg \in Msgs : LogCall(t, InfoLevel, msg)
           \/ Resolve(t)
           \/ LogBegin(t)
           \/ \E failed \in BOOLEAN : LogReturn(t, failed)
           \/ Finish(t)

SpecOrder == Init /\ [][NextOrder]_vars

\* SpecClock: the same with one level per registration, and the clock advancing
\* between the steps of a severity call
NextClock ==
    \/ (\E t \in Threads : pc[t] \in {"resolve", "dispatch", "in_log"}) /\ ClockTick
    \/ \E t \in {"t1"} :
           \/ \E h \in ConcHandlers : RegLock(t, h, <<InfoLevel>>)
           \/ RegAppend(t)
           \/ RegHandles(t)
           \/ RegSnapshot(t)
           \/ RegPublish(t)
           \/ RegUnlock(t)
           \/ \E msg \in Msgs : LogCall(t, InfoLevel, msg)
           \/ Resolve(t)
           \/ LogBegin(t)
           \/ \E failed \in BOOLEAN : LogReturn(t, failed)
           \/ Finish(t)

SpecClock == Init /\ [][NextClock]_vars

\* SpecInflight: RegisterHandler and package-level severity calls of two goroutines,
\* interleaved, the call and the return of each Log as two steps, so that a
\* registration may run from its first step to its last while a Log is running (as
\* one made by another goroutine, or by the handler's Log itself, does)
NextInflight ==
    \E t \in Threads :
        \/ \E h \in ConcHandlers, ls \in ConcLevelArgs : RegLock(t, h, ls)
        \/ RegAppend(t)
        \/ RegHandles(t)
        \/ RegSnapshot(t)
        \/ RegPublish(t)
        \/ RegUnlock(t)
        \/ \E level \in ConcLevels, msg \in Msgs : LogCall(t, level, msg)
        \/ Resolve(t)
        \/ ResolveZeroList(t)
        \/ ResolveTornList(t)
        \/ LogBegin(t)
        \/ \E failed \in BOOLEAN : LogReturn(t, failed)
        \/ Finish(t)

SpecInflight == Init /\ [][NextInflight]_vars

\* inputs of the lock specification
LiveLevels == {InfoLevel, FatalLevel}
LiveDefaultArgs == { ("a" :> "d1") }

\* SpecLive: RegisterHandler, severity calls, Flush and WithDefaultFields of two
\* goroutines, interleaved; RegisterHandler waits for the lock, and it is also called
\* from a handler's Log and from a Flusher's Flush, which also logs; one
\* WithDefaultFields call
NextLive ==
    \E t \in Threads :
        \/ RegCall(t, "h1", <<InfoLevel>>)
        \/ RegAcquire(t)
        \/ RegAppend(t)
        \/ RegHandles(t)
        \/ RegSnapshot(t)
        \/ RegPublish(t)
        \/ RegUnlock(t)
        \/ \E level \in LiveLevels, msg \in Msgs : LogCall(t, level, msg)
        \/ \E msg \in Msgs : HandlerLogCall(t, InfoLevel, msg)
        \/ Resolve(t)
        \/ ResolveZeroList(t)
        \/ ResolveTornList(t)
        \/ LogBegin(t)
        \/ LogReturn(t, FALSE)
        \/ Finish(t)
        \/ FlushCall(t)
        \/ FlusherBegin(t)
        \/ FlusherReturn(t, FALSE)
        \/ FlushReturn(t)
        \/ \E fields \in LiveDefaultArgs : dfCalls = <<>> /\ WdfBuild(t, fields)
        \/ WdfStore(t)

\* The scheduler runs every goroutine that can run, so a RegisterHandler call that
\* holds the lock takes its next step; sync.Mutex hands the lock to a goroutine that
\* keeps waiting for it (starvation mode).  Nothing is assumed of the steps of
\* logging, Flush and WithDefaultFields calls, nor of the handlers' Log and Flush.
FairLive ==
    \A t \in Threads :
        /\ SF_vars(RegAcquire(t))
        /\ WF_vars(RegAppend(t))
        /\ WF_vars(RegHandles(t))
        /\ WF_vars(RegSnapshot(t))
        /\ WF_vars(RegPublish(t))
        /\ WF_vars(RegUnlock(t))

SpecLive == Init /\ [][NextLive]_vars /\ FairLive

\* SpecDuration: duration applied to each of the Durations
InitDuration == InitLogger /\ elapsed \in Durations

NextDuration == Render

SpecDuration == InitDuration /\ [][NextDuration]_vars

(***************************************************************************)
(* What the calls made so far should have registered, computed from the    *)
(* history of RegisterHandler calls and not from the logger's fields.      *)
(***************************************************************************)
RECURSIVE ExpectedFrom(_, _, _)
ExpectedFrom(i, level, R) ==
    IF i > Len(regCalls) THEN <<>>
    ELSE (IF i \in R
          THEN Repeat(regCalls[i].handler, Count(regCalls[i].levels, level))
          ELSE <<>>) \o ExpectedFrom(i + 1, level, R)

\* the level's list after exactly the calls in R, in call order
ExpectedList(level, R) == ExpectedFrom(1, level, R)

InHandler(t) == pc[t] \in {"dispatch", "exit"}
DispatchComplete(t) == InHandler(t) /\ disp[t].i > Len(disp[t].list)
GotHandlers(t) == [ j \in 1..Len(disp[t].got) |-> disp[t].got[j].handler ]

\* h has a returned registration, and no call (returned or running) names a level but L
RegisteredOnlyFor(h, L) ==
    /\ \E i \in Returned : regCalls[i].handler = h
    /\ \A i \in Started : regCalls[i].handler = h => Range(regCalls[i].levels) = {L}

(***************************************************************************)
(* C1: a handler registered for level L and for no other level is given    *)
(* every entry finalized at L by a call that started after the             *)
(* registration returned, and is never given an entry of another level.    *)
(***************************************************************************)
C1_OnlyItsLevel ==
    \A h \in Handlers, L \in Levels :
        RegisteredOnlyFor(h, L) =>
            \A t \in Threads :
                /\ \A j \in 1..Len(disp[t].got) :
                       disp[t].got[j].handler = h => disp[t].got[j].Level = L
                /\ ( /\ DispatchComplete(t)
                     /\ disp[t].e.Level = L
                     /\ \E i \in disp[t].seen : regCalls[i].handler = h )
                   => \E j \in 1..Len(disp[t].got) :
                          disp[t].got[j].handler = h /\ disp[t].got[j].Level = L

C1_Witness ==
    \E t \in Threads, h \in Handlers :
        /\ RegisteredOnlyFor(h, InfoLevel)
        /\ DispatchComplete(t)
        /\ disp[t].e.Level = InfoLevel
        /\ \E i \in disp[t].seen : regCalls[i].handler = h
        /\ \E g \in Handlers \ {h} : \E i \in Returned : ErrorLevel \in Range(regCalls[i].levels)
                                                       /\ regCalls[i].handler = g

(***************************************************************************)
(* C2: a failure of one handler's Log skips no handler of the list and     *)
(* does not end the call: at every point of the loop exactly the handlers  *)
(* before the loop index were invoked, each failure went to stderr and     *)
(* nowhere else, and when the loop ends every handler of the list was      *)
(* invoked, whichever of them failed.                                      *)
(***************************************************************************)
C2_FailureIsolated ==
    \A t \in Threads :
        InHandler(t) =>
            /\ disp[t].i \in 1..(Len(disp[t].list) + 1)
            /\ GotHandlers(t) = SubSeq(disp[t].list, 1, disp[t].i - 1)
            /\ DispatchComplete(t) => GotHandlers(t) = disp[t].list
            /\ stderr >= Cardinality({ j \in 1..Len(disp[t].got) : disp[t].got[j].failed })

C2_Witness ==
    \E t \in Threads :
        /\ pc[t] = "dispatch"
        /\ DispatchComplete(t)
        /\ Len(disp[t].got) = 2
        /\ disp[t].got[1].failed
        /\ ~disp[t].got[2].failed
        /\ disp[t].got[1].handler # disp[t].got[2].handler
        /\ stderr = 1

(***************************************************************************)
(* C3: the list a logging call resolves is the level's list after a set of *)
(* whole registrations: the calls that had returned when it read the       *)
(* snapshot, or those and the one running; and the set includes every call *)
(* that had returned when the logging call started.                        *)
(***************************************************************************)
C3_SnapshotAtomic ==
    \A t \in Threads :
        InHandler(t) =>
            \E R \in {disp[t].retAtResolve, disp[t].startedAtResolve} :
                /\ disp[t].seen \subseteq R
                /\ disp[t].list = ExpectedList(disp[t].e.Level, R)

(***************************************************************************)
(* C4: no (handler, level) pair of a returned RegisterHandler call is      *)
(* missing from the level lists, the flat list or the published snapshot,  *)
(* whichever goroutines made the calls.                                    *)
(***************************************************************************)
C4_NoPairLost ==
    \A h \in Handlers :
        /\ Count(handles, h) >= Cardinality({ i \in Returned : regCalls[i].handler = h })
        /\ \A L \in Levels :
               /\ Count(leveledHandlers[L], h) >= Count(ExpectedList(L, Returned), h)
               /\ Count(Lookup(cacheLeveledHandlers, L), h) >= Count(ExpectedList(L, Returned), h)

C4_Witness ==
    /\ Len(regCalls) = 2
    /\ Returned = Started
    /\ regCalls[1].thread # regCalls[2].thread
    /\ regCalls[1].handler # regCalls[2].handler
    /\ Range(regCalls[1].levels) \cap Range(regCalls[2].levels) # {}

(***************************************************************************)
(* C5: every layer added by a WithDefaultFields call that has returned is  *)
(* in the default-fields list, as many times as it was added.              *)
(***************************************************************************)
C5_DefaultsAppendOnly ==
    \A fields \in DefaultArgs \cup FieldArgs :
        Count(defaultFields, fields) >=
            Cardinality({ i \in DefaultsReturned : dfCalls[i].fields = fields })

(***************************************************************************)
(* C6: the chain of an Entry is the layers of the WithDefaultFields calls  *)
(* that had returned when it was created, in call order, followed by the   *)
(* layers added to the Entry itself; the Fields a handler is given are     *)
(* those layers merged, whatever WithDefaultFields calls came later.       *)
(***************************************************************************)
RECURSIVE DefaultsFrom(_, _)
DefaultsFrom(i, D) ==
    IF i > Len(dfCalls) THEN <<>>
    ELSE (IF i \in D THEN <<dfCalls[i].fields>> ELSE <<>>) \o DefaultsFrom(i + 1, D)

\* the layers the calls in D added, in call order
DefaultsOf(D) == DefaultsFrom(1, D)

Keys(chain) == UNION { DOMAIN chain[i] : i \in 1..Len(chain) }
LastLayerWith(chain, k) ==
    CHOOSE i \in 1..Len(chain) :
        /\ k \in DOMAIN chain[i]
        /\ \A j \in (i + 1)..Len(chain) : k \notin DOMAIN chain[j]

\* the union of the layers' keys, each with the value of the last layer that has it
LastWriterWins(chain) == [ k \in Keys(chain) |-> chain[LastLayerWith(chain, k)][k] ]

C6_DefaultsAtCreation ==
    \A t \in Threads :
        /\ held[t].logger => held[t].fields = DefaultsOf(held[t].bornAfter) \o held[t].own
        /\ InHandler(t) =>
               \A j \in 1..Len(disp[t].got) :
                   disp[t].got[j].Fields =
                       LastWriterWins(DefaultsOf(disp[t].e.bornAfter) \o disp[t].e.own)

C6_Witness ==
    \E t \in Threads :
        /\ InHandler(t)
        /\ Len(disp[t].got) >= 1
        /\ disp[t].e.bornAfter = {1}
        /\ DefaultsReturned = {1, 2}
        /\ dfCalls[1].fields # dfCalls[2].fields
        /\ Len(disp[t].e.own) >= 1
        /\ disp[t].got[1].Fields # LastWriterWins(defaultFields \o disp[t].e.own)

(***************************************************************************)
(* C7: the Fields a handler is given have exactly the keys of the layers   *)
(* of the entry's chain, each with the value of the last layer that has    *)
(* the key, however many layers the chain has.                             *)
(***************************************************************************)
C7_LastWriterWins ==
    \A t \in Threads :
        InHandler(t) =>
            \A j \in 1..Len(disp[t].got) :
                LET f == disp[t].got[j].Fields
                    chain == disp[t].e.fields
                IN /\ DOMAIN f = Keys(chain)
                   /\ \A k \in DOMAIN f : f[k] = chain[LastLayerWith(chain, k)][k]

C7_Witness ==
    \E t \in Threads :
        /\ InHandler(t)
        /\ Len(disp[t].got) >= 1
        /\ Len(disp[t].e.fields) >= 3
        /\ LET chain == disp[t].e.fields
           IN /\ "a" \in DOMAIN chain[1] /\ "a" \in DOMAIN chain[Len(chain)]
              /\ chain[1]["a"] # chain[Len(chain)]["a"]
              /\ disp[t].got[1].Fields["a"] = chain[Len(chain)]["a"]
              /\ "b" \in DOMAIN disp[t].got[1].Fields

(***************************************************************************)
(* C8: when the loop of a Flush call ends, every registered handler that   *)
(* is a Flusher had its Flush called exactly once by that call, and no     *)
(* other handler had.                                                      *)
(***************************************************************************)
FlushComplete(t) == pc[t] = "flush" /\ fl[t].i > Len(fl[t].hs)
FlushedBy(t) == [ j \in 1..Len(fl[t].did) |-> fl[t].did[j].handler ]

C8_FlushOncePerHandler ==
    \A t \in Threads :
        FlushComplete(t) =>
            \A h \in Handlers :
                Count(FlushedBy(t), h) =
                    IF h \in Flushers /\ (\E i \in Returned : regCalls[i].handler = h)
                    THEN 1 ELSE 0

(***************************************************************************)
(* C9: the process exits only from Panic or Fatal, after handler(e) has    *)
(* called Log of every handler of the resolved list with the entry (so of  *)
(* every handler registered for the level before the call started), and a  *)
(* Panic or Fatal call always ends in the exit, failures or not, handlers  *)
(* or none.                                                                *)
(***************************************************************************)
LeavesHandler(t) == pc[t] = "dispatch" /\ pc'[t] # "dispatch"

C9_ExitAfterDispatch ==
    [][ /\ \A t \in Threads :
               (LeavesHandler(t) /\ disp[t].e.Level \in {PanicLevel, FatalLevel}) => exited'
        /\ (exited' /\ ~exited) =>
               \E t \in Threads :
                   /\ LeavesHandler(t)
                   /\ disp[t].e.Level \in {PanicLevel, FatalLevel}
                   /\ GotHandlers(t) = disp[t].list
                   /\ IsPrefix(ExpectedList(disp[t].e.Level, disp[t].seen), GotHandlers(t))
                   /\ \A j \in 1..Len(disp[t].got) :
                          /\ disp[t].got[j].Level = disp[t].e.Level
                          /\ disp[t].got[j].Message = disp[t].e.Message
      ]_vars

C9_Witness ==
    \E t \in Threads :
        /\ exited
        /\ pc[t] = "exit"
        /\ disp[t].e.Level = FatalLevel
        /\ Len(disp[t].got) >= 1
        /\ disp[t].got[1].failed

(***************************************************************************)
(* C10: a severity call at a level no RegisterHandler call has named       *)
(* invokes no Log and leaves the registry, the snapshot, the default       *)
(* fields and stderr as they were.                                         *)
(***************************************************************************)
NoRegistrationFor(L) == \A i \in Started : L \notin Range(regCalls[i].levels)
Steps(t) == pc'[t] # pc[t] \/ disp'[t] # disp[t]

C10_EmptyLevelNoEffect ==
    [][ \A t \in Threads :
            ( /\ Steps(t)
              /\ pc'[t] \in {"resolve", "dispatch", "exit"} \/ pc[t] = "dispatch"
              /\ NoRegistrationFor(IF pc[t] = "idle" THEN disp'[t].e.Level
                                                     ELSE disp[t].e.Level) )
            => /\ disp'[t].got = <<>>
               /\ UNCHANGED << handles, leveledHandlers, cacheLeveledHandlers,
                               defaultFields, stderr >>
      ]_vars

C10_Witness ==
    \E t \in Threads :
        /\ pc[t] = "dispatch"
        /\ DispatchComplete(t)
        /\ NoRegistrationFor(disp[t].e.Level)
        /\ handles # <<>>
        /\ disp[t].got = <<>>

(***************************************************************************)
(* C11: a Trace call starts no dispatch and invokes no handler; the        *)
(* dispatch made by Stop on the traced Entry is at InfoLevel, every Log it *)
(* calls is given the message that was given to Trace and Fields holding   *)
(* the key "duration", and when it ends the handlers invoked are exactly   *)
(* the registrations for InfoLevel, one Log per registration, so a handler *)
(* registered only for other levels is given nothing.                      *)
(***************************************************************************)
TraceStep(t) == held'[t].traced # "" /\ held'[t] # held[t]

StopDispatch(t) == InHandler(t) /\ disp[t].stop /\ disp[t].e.traced # ""

C11_TraceThenStop ==
    /\ [][ \A t \in Threads : TraceStep(t) => UNCHANGED << pc, disp, calls, stderr >> ]_vars
    /\ [](\A t \in Threads :
              StopDispatch(t) =>
                  /\ disp[t].e.Level = InfoLevel
                  /\ \A j \in 1..Len(disp[t].got) :
                         /\ disp[t].got[j].Level = InfoLevel
                         /\ disp[t].got[j].Message = disp[t].e.traced
                         /\ "duration" \in DOMAIN disp[t].got[j].Fields
                  /\ DispatchComplete(t) =>
                         GotHandlers(t) = ExpectedList(InfoLevel, disp[t].seen))

C11_Witness ==
    \E t \in Threads :
        /\ StopDispatch(t) /\ DispatchComplete(t)
        /\ Len(disp[t].got) = 2
        /\ disp[t].got[1].handler = disp[t].got[2].handler
        /\ disp[t].got[1].Fields["duration"] = << <<1, "d">>, String(0) >>
        /\ \E i \in disp[t].seen : regCalls[i].levels = <<ErrorLevel>>

(***************************************************************************)
(* C18: duration(d) for d >= 0.  Below a day the result is d.String().     *)
(* From a day on it is an optional "<years>y", then "<days>d", then the    *)
(* String of a remainder, where the year part is there exactly when        *)
(* d >= 365 days and then years >= 1, 0 <= days < 365, 0 <= remainder <    *)
(* 24h, and years * 365 days + days * 24h + remainder = d.                 *)
(***************************************************************************)
Rendered == rendered # NoRender

C18_DurationDecomposition ==
    Rendered =>
        IF elapsed < 24 * Hour
        THEN rendered = << String(elapsed) >>
        ELSE LET n == Len(rendered)
                 years == IF n = 3 THEN rendered[1][1] ELSE 0
                 days == rendered[n - 1][1]
                 remainder == rendered[n][1]
             IN /\ n \in {2, 3}
                /\ n = 3 <=> elapsed >= 365 * 24 * Hour
                /\ n = 3 => rendered[1] = <<years, "y">> /\ years >= 1
                /\ rendered[n - 1] = <<days, "d">> /\ days \in 0..364
                /\ rendered[n] = String(remainder) /\ remainder \in 0..(24 * Hour - 1)
                /\ years * 365 * 24 * Hour + days * 24 * Hour + remainder = elapsed

C18_Witness ==
    /\ elapsed = 365 * 24 * Hour + 25 * Hour
    /\ rendered = << <<1, "y">>, <<1, "d">>, String(Hour) >>

(***************************************************************************)
(* C12: whatever field-adding calls were made on an Entry or on entries    *)
(* derived from it, the layers its slice holds are the default layers of   *)
(* its creation followed by the layers added on its own line of            *)
(* derivation, and the default-fields slice holds the layers of the        *)
(* WithDefaultFields calls: no call writes into a chain another Entry or   *)
(* the logger still reads.                                                 *)
(***************************************************************************)
ChainOf(v) == Read(arrays, ents[v].sl)

C12_CopyOnAppend ==
    /\ Read(arrays, defaultSlice) = DefaultsOf(DefaultsReturned)
    /\ \A v \in EntryVars :
           ents[v].e.logger =>
               /\ ChainOf(v) = DefaultsOf(ents[v].e.bornAfter) \o ents[v].e.own
               /\ ChainOf(v) = ents[v].e.fields

C12_Witness ==
    /\ ents["e"].e.logger /\ ents["e1"].e.logger /\ ents["e2"].e.logger
    /\ Len(ChainOf("e")) = 1
    /\ ents["e"].sl.cap > ents["e"].sl.len
    /\ ents["e1"].sl.arr # ents["e2"].sl.arr
    /\ \E a, b \in FieldArgs :
           /\ a # b
           /\ ChainOf("e1") = ChainOf("e") \o <<a>>
           /\ ChainOf("e2") = ChainOf("e") \o <<b>>

(***************************************************************************)
(* C13: for the context and every Entry variable reached,                  *)
(* FromContext(NewContext(ctx, e)) is e, also when ctx already binds an    *)
(* Entry (the innermost binding wins); FromContext of a context that binds *)
(* no Entry is a new Entry over the default fields as they are now; and    *)
(* FromContext of a context that binds one is the innermost Entry bound,   *)
(* whose slice still holds the chain it had when it was bound, whatever    *)
(* was added since to entries read from the context.                       *)
(***************************************************************************)
Bound == { i \in 1..Len(ctx) : ctx[i].key = ctxKey }
Innermost == CHOOSE i \in Bound : \A j \in Bound : j <= i
ChainAsBound(ev) == DefaultsOf(ev.e.bornAfter) \o ev.e.own

C13_ContextRoundTrip ==
    /\ \A v \in EntryVars :
           ents[v].e.logger =>
               /\ FromContext(NewContext(ctx, ents[v])) = ents[v]
               /\ \A w \in EntryVars :
                      FromContext(NewContext(NewContext(ctx, ents[w]), ents[v])) = ents[v]
               /\ \A key \in OtherKeys :
                      FromContext(WithValue(NewContext(ctx, ents[v]), key, OtherValue)) = ents[v]
    /\ Bound = {} =>
           /\ FromContext(ctx).e = [ NoEntry EXCEPT !.logger = TRUE,
                                                     !.fields = defaultFields,
                                                     !.bornAfter = DefaultsReturned ]
           /\ Read(arrays, FromContext(ctx).sl) = DefaultsOf(DefaultsReturned)
    /\ Bound # {} =>
           /\ FromContext(ctx) = ctx[Innermost].val
           /\ Read(arrays, FromContext(ctx).sl) = ChainAsBound(ctx[Innermost].val)
           /\ FromContext(ctx).e.fields = ChainAsBound(ctx[Innermost].val)

C13_Witness ==
    /\ Len(ctx) = 2 /\ Bound = {1, 2}
    /\ ctx[1].val # ctx[2].val
    /\ Len(defaultFields) >= 1
    /\ ents["e1"].e.logger
    /\ \E a \in FieldArgs : ChainOf("e1") = ChainAsBound(ctx[2].val) \o <<a>>
    /\ ents["e2"] = ctx[2].val
    /\ FromContext(ctx) = ctx[2].val

(***************************************************************************)
(* C14: when no RegisterHandler call is running, a handler is in a level's *)
(* list exactly when a call registered it for that level, it is there      *)
(* once, and a handler that was registered is in the flat list once.       *)
(***************************************************************************)
RegisteredFor(h, L) ==
    \E i \in Returned : regCalls[i].handler = h /\ L \in Range(regCalls[i].levels)
Registered(h) == \E i \in Returned : regCalls[i].handler = h

C14_RegistryInvariant ==
    Returned = Started =>
        \A h \in Handlers :
            /\ \A L \in Levels :
                   /\ h \in Range(leveledHandlers[L]) <=> RegisteredFor(h, L)
                   /\ Count(leveledHandlers[L], h) = IF RegisteredFor(h, L) THEN 1 ELSE 0
            /\ Count(handles, h) = IF Registered(h) THEN 1 ELSE 0

(***************************************************************************)
(* C15: when the loop of a dispatch ends, each handler's Log was called as *)
(* many times as the handler was registered for the entry's level by the   *)
(* calls that had returned, counting every call and every repetition of    *)
(* the level in one call.                                                  *)
(***************************************************************************)
RECURSIVE TimesRegistered(_, _, _)
TimesRegistered(h, L, R) ==
    IF R = {} THEN 0
    ELSE LET i == CHOOSE j \in R : TRUE
         IN (IF regCalls[i].handler = h THEN Count(regCalls[i].levels, L) ELSE 0)
            + TimesRegistered(h, L, R \ {i})

C15_OncePerRegistration ==
    \A t \in Threads :
        DispatchComplete(t) =>
            \A h \in Handlers :
                Count(GotHandlers(t), h) = TimesRegistered(h, disp[t].e.Level, disp[t].seen)

C15_Witness ==
    \E t \in Threads :
        /\ DispatchComplete(t)
        /\ Len(regCalls) = 2
        /\ regCalls[1].handler = regCalls[2].handler
        /\ regCalls[1].levels # regCalls[2].levels
        /\ Len(disp[t].got) = 3

(***************************************************************************)
(* C16: the list a dispatch iterates is the registrations for the entry's  *)
(* level in the order of the RegisterHandler calls; the calls and returns  *)
(* of Log alternate, the k-th call being to the k-th handler of the list   *)
(* and each call following the return of the one before; and the severity  *)
(* call leaves handler() only after the last Log has returned.             *)
(***************************************************************************)
InDispatch(t) == pc[t] \in {"dispatch", "in_log", "exit"}

C16_SequentialInOrder ==
    /\ [](\A t \in Threads :
              InDispatch(t) =>
                  LET ev == disp[t].events
                  IN /\ disp[t].list = ExpectedList(disp[t].e.Level, disp[t].seen)
                     /\ Len(ev) = 2 * (disp[t].i - 1) + (IF pc[t] = "in_log" THEN 1 ELSE 0)
                     /\ \A k \in 1..Len(ev) :
                            /\ ev[k].kind = IF k % 2 = 1 THEN "call" ELSE "return"
                            /\ ev[k].handler = disp[t].list[(k + 1) \div 2])
    /\ [][ \A t \in Threads :
               (pc[t] \in {"dispatch", "in_log"} /\ pc'[t] \notin {"dispatch", "in_log"})
               => /\ pc[t] = "dispatch"
                  /\ Len(disp[t].events) = 2 * Len(disp[t].list)
                  /\ \A k \in {Len(disp[t].events)} \ {0} :
                         disp[t].events[k].kind = "return" ]_vars

C16_Witness ==
    \E t \in Threads :
        /\ pc[t] = "in_log"
        /\ Len(disp[t].list) >= 3
        /\ disp[t].i = 2
        /\ disp[t].list[1] # disp[t].list[2]
        /\ disp[t].got[1].failed
        /\ Len(disp[t].events) = 3

(***************************************************************************)
(* C17: the Timestamp given to each handler is read in the loop body of    *)
(* that handler: not before the return of the Log before it, not before    *)
(* the severity method was called, and not after its own Log is called;    *)
(* so the timestamps of one dispatch never decrease in list order.         *)
(***************************************************************************)
C17_TimestampPerHandler ==
    \A t \in Threads :
        InDispatch(t) =>
            LET ev == disp[t].events
            IN /\ \A k \in 1..Len(ev) :
                      ev[k].kind = "call" =>
                          /\ ev[k].Timestamp >= disp[t].calledAt
                          /\ ev[k].Timestamp <= ev[k].at
                          /\ k > 1 => /\ ev[k].Timestamp >= ev[k - 1].at
                                      /\ ev[k].Timestamp >= ev[k - 2].Timestamp
               /\ \A j \in 1..Len(disp[t].got) :
                      disp[t].got[j].Timestamp = ev[2 * j - 1].Timestamp

C17_Witness ==
    \E t \in Threads :
        /\ InDispatch(t)
        /\ Len(disp[t].got) = 2
        /\ disp[t].calledAt < disp[t].got[1].Timestamp
        /\ disp[t].got[1].Timestamp < disp[t].got[2].Timestamp

(***************************************************************************)
(* C19: the list of a dispatch is resolved once and stays as resolved      *)
(* until the severity call leaves handler(), whatever RegisterHandler      *)
(* calls run or return meanwhile; the handlers whose Log was called are at *)
(* every moment the first handlers of that list, in its order, and all of  *)
(* it when the loop ends; and a handler registered for the level by a call *)
(* that returned before a severity call started has its Log called by that *)
(* severity call, once per registration.                                   *)
(***************************************************************************)
Iterating(t) == pc[t] \in {"dispatch", "in_log"}

C19_InflightListFixed ==
    /\ [][ \A t \in Threads :
               (Iterating(t) /\ InDispatch(t)') => disp'[t].list = disp[t].list ]_vars
    /\ [](\A t \in Threads :
              InDispatch(t) =>
                  /\ IsPrefix(GotHandlers(t), disp[t].list)
                  /\ Len(disp[t].got) = disp[t].i - 1
                  /\ DispatchComplete(t) =>
                         /\ GotHandlers(t) = disp[t].list
                         /\ \A h \in Handlers :
                                Count(GotHandlers(t), h) >=
                                    TimesRegistered(h, disp[t].e.Level, disp[t].seen))

(***************************************************************************)
(* C20: the registry lock is held by a goroutine exactly while it is       *)
(* between the Lock and the deferred Unlock of RegisterHandler, so it is   *)
(* released when the call returns, and no step of a severity call, of      *)
(* Flush or of WithDefaultFields takes it or waits for it: whoever holds   *)
(* the lock, each such call has a step it can take.  Under the fairness of *)
(* SpecLive every RegisterHandler call that waits for the lock returns to  *)
(* its caller, unless the process exits first, whatever severity, Flush    *)
(* and WithDefaultFields calls are in progress and wherever they stop; so  *)
(* does a RegisterHandler call made from a handler's Log or a Flusher's    *)
(* Flush, and a severity call made from a Flusher's Flush is not blocked.  *)
(***************************************************************************)
InRegister(t) == pc[t] \in Holding \cup {"reg_wait"}

\* the positions of severity, Flush and WithDefaultFields calls
LockFreePositions == {"resolve", "dispatch", "in_log", "flush", "in_flush", "wdf_store"}

\* a step of the call of t that is not a step of RegisterHandler
LockFreeStep(t) ==
    \/ Resolve(t) \/ LogBegin(t) \/ LogReturn(t, FALSE) \/ Finish(t)
    \/ FlusherBegin(t) \/ FlusherReturn(t, FALSE) \/ FlushStep(t, FALSE) \/ FlushReturn(t)
    \/ WdfStore(t)

C20_LockOnlyInRegister ==
    /\ [](\A t \in Threads : rwMutex = t <=> pc[t] \in Holding)
    /\ [](\A t \in Threads :
              (Running /\ pc[t] \in LockFreePositions) => ENABLED LockFreeStep(t))
    /\ \A t \in Threads : (pc[t] = "reg_wait") ~> (~InRegister(t) \/ exited)

\* a RegisterHandler call made from the Log of a handler has returned into that Log
\* while a severity or Flush call of the other goroutine is in progress
C20_Witness ==
    \E t \in Threads, u \in Threads, i \in Returned :
        /\ t # u
        /\ pc[t] = "in_log"
        /\ regCalls[i].thread = t /\ i \notin disp[t].retAtResolve
        /\ pc[u] \in LockFreePositions

=============================================================================
